---- MODULE Spec2Model ----
(***************************************************************************)
(* A model of create_visualization (tool-network-dashboard/                *)
(* visualizations.py): one call of the dashboard renderer on one table.    *)
(*                                                                         *)
(* A table is a set of column names and a sequence of rows, each row a     *)
(* function from the column names to values.  A raw timestamp is either a  *)
(* number of seconds, kept as a fraction num/den, or a value that          *)
(* pd.to_datetime(errors='coerce') turns into NaT.  A converted timestamp  *)
(* is a number of nanoseconds since the epoch, or NaT.  A source address   *)
(* is the host number n of 10.0.0.n.  The outputs of the call are the      *)
(* sequence of streamlit elements it emitted and the data behind each of   *)
(* the four widgets; chart styling (colours, titles, bar labels) is not    *)
(* part of the model.  A mean is kept as an exact fraction in lowest       *)
(* terms.                                                                  *)
(***************************************************************************)
EXTENDS Integers, Sequences, FiniteSets

VARIABLES input, df, pc, status, out,
          protocol_counts, df_grouped, avg_size, top_sources

vars == <<input, df, pc, status, out,
          protocol_counts, df_grouped, avg_size, top_sources>>

----------------------------------------------------------------------------
(* Bounds of the explored inputs *)

MaxRows == 3

MaxSources == 11

(* head(10) *)
TopN == 10

(* unit='s' on datetime64[ns] *)
NanosPerSecond == 1000000000

----------------------------------------------------------------------------
(* Values *)

Num(n, d) == [kind |-> "num", num |-> n, den |-> d]

Unparsable == [kind |-> "str", num |-> 0, den |-> 1]

NaT == [kind |-> "NaT", ns |-> 0]

Datetime(n) == [kind |-> "datetime", ns |-> n]

AllColumns == {"timestamp", "protocol", "size", "source"}

(* Protocol labels in ascending string order *)
ProtocolLabels == <<"TCP", "UDP">>

LabelRank(p) == CHOOSE i \in DOMAIN ProtocolLabels : ProtocolLabels[i] = p

Range(s) == {s[i] : i \in DOMAIN s}

RECURSIVE Gcd(_, _)
Gcd(a, b) == IF b = 0 THEN a ELSE Gcd(b, a % b)

Fraction(n, d) == [num |-> n \div Gcd(n, d), den |-> d \div Gcd(n, d)]

----------------------------------------------------------------------------
(* pandas operations used by the call *)

(* df.empty taken as "no rows": a table with rows and no columns passes *)
IsEmptyNoRows(t) == Len(t.rows) = 0

(* df.empty: either axis has length 0 *)
IsEmpty(t) == Len(t.rows) = 0 \/ t.columns = {}

(* pd.to_datetime(v, unit='s', errors='coerce') on one value *)
to_datetime(v) ==
    IF v.kind = "num"
    THEN Datetime((v.num * NanosPerSecond) \div v.den)
    ELSE NaT

(* df['timestamp'] = pd.to_datetime(df['timestamp'], ...) *)
ConvertColumn(rows) ==
    [i \in DOMAIN rows |->
        [rows[i] EXCEPT !["timestamp"] = to_datetime(rows[i]["timestamp"])]]

(* the dropna step left out: rows whose timestamp is NaT stay in the table *)
dropna_skipped(rows) == rows

(* df.dropna(subset=['timestamp'], inplace=True) *)
dropna(rows) == SelectSeq(rows, LAMBDA r : r["timestamp"].kind # "NaT")

(* rounding to the nearest second instead of flooring *)
round_s(t) ==
    Datetime((t.ns + NanosPerSecond \div 2)
             - ((t.ns + NanosPerSecond \div 2) % NanosPerSecond))

(* Series.dt.floor('s') on one value *)
floor_s(t) == Datetime(t.ns - (t.ns % NanosPerSecond))

Column(rows, c) == [i \in DOMAIN rows |-> rows[i][c]]

(* only a run of equal neighbours collapsed, as itertools.groupby would *)
RECURSIVE UniquesOfRuns(_)
UniquesOfRuns(s) ==
    IF s = << >> THEN << >>
    ELSE IF Len(s) > 1 /\ s[2] = s[1]
         THEN UniquesOfRuns(Tail(s))
         ELSE <<Head(s)>> \o UniquesOfRuns(Tail(s))

(* distinct values of a series in order of first appearance *)
RECURSIVE Uniques(_)
Uniques(s) ==
    IF s = << >> THEN << >>
    ELSE LET rest == Uniques(SelectSeq(Tail(s), LAMBDA x : x # Head(s)))
         IN  <<Head(s)>> \o rest

Occurrences(s, v) == Cardinality({i \in DOMAIN s : s[i] = v})

(* the sort by count ascending instead of descending *)
RECURSIVE InsertByCountAscending(_, _)
InsertByCountAscending(sorted, e) ==
    IF sorted = << >> THEN <<e>>
    ELSE IF Head(sorted).count <= e.count
         THEN <<Head(sorted)>> \o InsertByCountAscending(Tail(sorted), e)
         ELSE <<e>> \o sorted

(* stable insertion of a (value, count) entry into a list sorted by count, *)
(* highest first: ties stay in order of first appearance                   *)
RECURSIVE InsertByCount(_, _)
InsertByCount(sorted, e) ==
    IF sorted = << >> THEN <<e>>
    ELSE IF Head(sorted).count >= e.count
         THEN <<Head(sorted)>> \o InsertByCount(Tail(sorted), e)
         ELSE <<e>> \o sorted

RECURSIVE SortByCount(_)
SortByCount(entries) ==
    IF entries = << >> THEN << >>
    ELSE InsertByCount(SortByCount(SubSeq(entries, 1, Len(entries) - 1)),
                       entries[Len(entries)])

(* Series.value_counts(): one entry per distinct value, highest count first *)
value_counts(s) ==
    LET u == Uniques(s)
    IN  SortByCount([i \in DOMAIN u |->
                        [value |-> u[i], count |-> Occurrences(s, u[i])]])

(* Series.head(n) *)
head(s, n) == SubSeq(s, 1, IF Len(s) < n THEN Len(s) ELSE n)

(* a set of integers as an ascending sequence: the keys of a groupby are *)
(* sorted (sort=True)                                                    *)
RECURSIVE Ascending(_)
Ascending(S) ==
    IF S = {} THEN << >>
    ELSE LET m == CHOOSE x \in S : \A y \in S : x <= y
         IN  <<m>> \o Ascending(S \ {m})

(* df.groupby(df['timestamp'].dt.floor('s')).size() *)
GroupBySecond(rows) ==
    LET secs == [i \in DOMAIN rows |-> floor_s(rows[i]["timestamp"])]
        keys == Ascending({t.ns : t \in Range(secs)})
    IN  [k \in DOMAIN keys |->
            [timestamp |-> Datetime(keys[k]),
             count |-> Occurrences(secs, Datetime(keys[k]))]]

RECURSIVE Sum(_)
Sum(s) == IF s = << >> THEN 0 ELSE Head(s) + Sum(Tail(s))

(* integer division instead of true division *)
mean_floordiv(s) == Fraction(Sum(s) \div Len(s), 1)

(* Series.mean() of a non-empty numeric series *)
mean(s) == Fraction(Sum(s), Len(s))

(* df.groupby('protocol')['size'].mean() *)
GroupMeanSize(rows) ==
    LET ranks == Ascending({LabelRank(p) : p \in Range(Column(rows, "protocol"))})
        keys == [k \in DOMAIN ranks |-> ProtocolLabels[ranks[k]]]
    IN  [k \in DOMAIN keys |->
            [protocol |-> keys[k],
             size |-> mean(Column(SelectSeq(rows,
                                    LAMBDA r : r["protocol"] = keys[k]),
                                  "size"))]]

----------------------------------------------------------------------------
(* Input tables *)

Row(t, p, z, s) == [timestamp |-> t, protocol |-> p, size |-> z, source |-> s]

Project(rows, cols) == [i \in DOMAIN rows |-> [c \in cols |-> rows[i][c]]]

Table(rows, cols) == [columns |-> cols, rows |-> Project(rows, cols)]

SeqsUpTo(S, n) == UNION {[1..k -> S] : k \in 0..n}

Timestamps == {Num(0, 1), Num(1, 2), Num(1, 1), Unparsable}

(* tables that vary the timestamps and the protocols *)
TrafficRows ==
    {Row(t, p, 10, 1) : t \in Timestamps, p \in Range(ProtocolLabels)}

(* tables that vary the sizes *)
SizeRows ==
    {Row(t, p, z, 1) : t \in {Num(0, 1), Unparsable},
                       p \in Range(ProtocolLabels), z \in {10, 20, 100}}

(* tables of d source addresses, address a in n[a] rows: one row of each *)
(* address in turn, then a second row of those that have two; lead, when *)
(* not 0, is the address of a first row whose timestamp is unparsable    *)
SourceRows(d, n, lead) ==
    LET first  == [a \in 1..d |-> Row(Num(a % 2, 1), "TCP", 10, a)]
        second == SelectSeq(first, LAMBDA r : n[r["source"]] = 2)
        dropped == IF lead = 0 THEN << >>
                   ELSE <<Row(Unparsable, "UDP", 20, lead)>>
    IN  dropped \o first \o second

(* the rows of R as a table with the columns cols has them *)
RowsOn(R, cols) == {[c \in cols |-> r[c]] : r \in R}

(* the tables a call is explored on *)
IsInput(t) ==
    \/ \E cols \in SUBSET AllColumns :
            \E rows \in SeqsUpTo(RowsOn(TrafficRows, cols), MaxRows) :
                t = [columns |-> cols, rows |-> rows]
    \/ \E cols \in SUBSET AllColumns :
            \E rows \in SeqsUpTo(RowsOn(SizeRows, cols), MaxRows) :
                t = [columns |-> cols, rows |-> rows]
    \/ \E d \in 1..MaxSources :
            \E n \in [1..d -> {1, 2}], lead \in {0, 1, d + 1} :
                t = Table(SourceRows(d, n, lead), AllColumns)

----------------------------------------------------------------------------
(* create_visualization(df) *)

Init ==
    /\ IsInput(input)
    /\ df = input
    /\ pc = "header"
    /\ status = "running"
    /\ out = << >>
    /\ protocol_counts = << >>
    /\ df_grouped = << >>
    /\ avg_size = << >>
    /\ top_sources = << >>

Emit(elements) == out' = out \o elements

Return == status' = "returned" /\ pc' = "done"

Raise == status' = "raised" /\ pc' = "done"

(* st.markdown("### ... Dashboard") *)
Header ==
    /\ pc = "header"
    /\ Emit(<<"markdown">>)
    /\ pc' = "empty"
    /\ UNCHANGED <<input, df, status, protocol_counts, df_grouped, avg_size,
                   top_sources>>

(* the empty check with its return left out *)
HandleEmptyNoReturn ==
    /\ pc = "empty"
    /\ IF IsEmpty(df) THEN Emit(<<"warning">>) ELSE UNCHANGED out
    /\ pc' = "timestamp"
    /\ UNCHANGED <<input, df, status, protocol_counts, df_grouped, avg_size,
                   top_sources>>

(* if df.empty: st.warning(...); return *)
HandleEmpty ==
    /\ pc = "empty"
    /\ IF IsEmpty(df)
       THEN Emit(<<"warning">>) /\ Return
       ELSE pc' = "timestamp" /\ UNCHANGED <<out, status>>
    /\ UNCHANGED <<input, df, protocol_counts, df_grouped, avg_size,
                   top_sources>>

(* the conversion with no try/except around it: the KeyError propagates *)
TimestampConversionUnguarded ==
    /\ pc = "timestamp"
    /\ IF "timestamp" \notin df.columns
       THEN Raise /\ UNCHANGED <<df, out>>
       ELSE /\ df' = [df EXCEPT !.rows = dropna(ConvertColumn(df.rows))]
            /\ pc' = "protocol"
            /\ UNCHANGED <<out, status>>
    /\ UNCHANGED <<input, protocol_counts, df_grouped, avg_size, top_sources>>

(* the conversion taking the error path when no row is left *)
TimestampConversionStrict ==
    /\ pc = "timestamp"
    /\ IF \/ "timestamp" \notin df.columns
          \/ dropna(ConvertColumn(df.rows)) = << >>
       THEN Emit(<<"error">>) /\ Return /\ UNCHANGED df
       ELSE /\ df' = [df EXCEPT !.rows = dropna(ConvertColumn(df.rows))]
            /\ pc' = "protocol"
            /\ UNCHANGED <<out, status>>
    /\ UNCHANGED <<input, protocol_counts, df_grouped, avg_size, top_sources>>

(* try: convert and drop; except Exception: st.error(...); return *)
TimestampConversion ==
    /\ pc = "timestamp"
    /\ IF "timestamp" \notin df.columns
       THEN Emit(<<"error">>) /\ Return /\ UNCHANGED df
       ELSE /\ df' = [df EXCEPT !.rows = dropna(ConvertColumn(df.rows))]
            /\ pc' = "protocol"
            /\ UNCHANGED <<out, status>>
    /\ UNCHANGED <<input, protocol_counts, df_grouped, avg_size, top_sources>>

(* widget 1 inside the try block: a missing column reported, not raised *)
ProtocolDistributionInTry ==
    /\ pc = "protocol"
    /\ IF "protocol" \notin df.columns
       THEN Emit(<<"subheader1", "error">>) /\ Return
            /\ UNCHANGED protocol_counts
       ELSE /\ protocol_counts' = value_counts(Column(df.rows, "protocol"))
            /\ Emit(<<"subheader1", "pie">>)
            /\ pc' = "timeline"
            /\ UNCHANGED status
    /\ UNCHANGED <<input, df, df_grouped, avg_size, top_sources>>

(* widget 1: df['protocol'].value_counts(), px.pie, st.plotly_chart *)
ProtocolDistribution ==
    /\ pc = "protocol"
    /\ IF "protocol" \notin df.columns
       THEN Emit(<<"subheader1">>) /\ Raise /\ UNCHANGED protocol_counts
       ELSE /\ protocol_counts' = value_counts(Column(df.rows, "protocol"))
            /\ Emit(<<"subheader1", "pie">>)
            /\ pc' = "timeline"
            /\ UNCHANGED status
    /\ UNCHANGED <<input, df, df_grouped, avg_size, top_sources>>

(* widget 2: groupby(floor('s')).size(), px.line, st.plotly_chart *)
PacketsPerSecond ==
    /\ pc = "timeline"
    /\ df_grouped' = GroupBySecond(df.rows)
    /\ Emit(<<"subheader2", "line">>)
    /\ pc' = "size"
    /\ UNCHANGED <<input, df, status, protocol_counts, avg_size, top_sources>>

(* widget 3 guarded by the presence of the size column, as widget 4 is *)
AverageSizeOptional ==
    /\ pc = "size"
    /\ IF ~ ({"protocol", "size"} \subseteq df.columns)
       THEN pc' = "source" /\ UNCHANGED <<avg_size, out, status>>
       ELSE /\ avg_size' = GroupMeanSize(df.rows)
            /\ Emit(<<"subheader3", "bar">>)
            /\ pc' = "source"
            /\ UNCHANGED status
    /\ UNCHANGED <<input, df, protocol_counts, df_grouped, top_sources>>

(* widget 3: groupby('protocol')['size'].mean(), go.Bar, st.plotly_chart *)
AverageSize ==
    /\ pc = "size"
    /\ IF ~ ({"protocol", "size"} \subseteq df.columns)
       THEN Emit(<<"subheader3">>) /\ Raise /\ UNCHANGED avg_size
       ELSE /\ avg_size' = GroupMeanSize(df.rows)
            /\ Emit(<<"subheader3", "bar">>)
            /\ pc' = "source"
            /\ UNCHANGED status
    /\ UNCHANGED <<input, df, protocol_counts, df_grouped, top_sources>>

(* widget 4: if 'source' in df.columns: value_counts().head(10), st.dataframe *)
TopTalkers ==
    /\ pc = "source"
    /\ IF "source" \in df.columns
       THEN /\ top_sources' = head(value_counts(Column(df.rows, "source")), TopN)
            /\ Emit(<<"subheader4", "table">>)
       ELSE UNCHANGED <<top_sources, out>>
    /\ pc' = "success"
    /\ UNCHANGED <<input, df, status, protocol_counts, df_grouped, avg_size>>

(* st.success(...) and the end of the function *)
Success ==
    /\ pc = "success"
    /\ Emit(<<"success">>)
    /\ Return
    /\ UNCHANGED <<input, df, protocol_counts, df_grouped, avg_size,
                   top_sources>>

Next ==
    \/ Header
    \/ HandleEmpty
    \/ TimestampConversion
    \/ ProtocolDistribution
    \/ PacketsPerSecond
    \/ AverageSize
    \/ TopTalkers
    \/ Success

Spec == Init /\ [][Next]_vars

----------------------------------------------------------------------------
(* What the claims are stated in: the table as passed, and the outputs *)

Emitted(e) == \E i \in DOMAIN out : out[i] = e

CountOf(e) == Cardinality({i \in DOMAIN out : out[i] = e})

Charts == {"pie", "line", "bar", "table"}

NoChart == \A i \in DOMAIN out : out[i] \notin Charts

Widgets == SelectSeq(out, LAMBDA e : e \in Charts)

Finished == pc = "done"

NoData == input.rows = << >> \/ input.columns = {}

Has(c) == c \in input.columns

(* the rows of the table whose timestamp is a number of seconds *)
RetainedIdx ==
    IF Has("timestamp")
    THEN {i \in DOMAIN input.rows : input.rows[i]["timestamp"].kind = "num"}
    ELSE {}

FailingIdx ==
    IF Has("timestamp") THEN DOMAIN input.rows \ RetainedIdx ELSE {}

Having(c, v) == {i \in RetainedIdx : input.rows[i][c] = v}

ValuesOf(c) == {input.rows[i][c] : i \in RetainedIdx}

RECURSIVE SizeTotal(_)
SizeTotal(I) ==
    IF I = {} THEN 0
    ELSE LET i == CHOOSE j \in I : TRUE
         IN  input.rows[i]["size"] + SizeTotal(I \ {i})

WholeSecond(i) ==
    input.rows[i]["timestamp"].num \div input.rows[i]["timestamp"].den

Min(a, b) == IF a < b THEN a ELSE b

----------------------------------------------------------------------------
(* C1: on an empty table the call emits the "no data" warning and returns  *)
(* normally; it emits no chart widget, no error banner and no success      *)
(* acknowledgment, and raises nothing.                                     *)
C1_EmptyTable ==
    NoData =>
        /\ NoChart
        /\ ~ Emitted("error")
        /\ ~ Emitted("success")
        /\ status # "raised"
        /\ Finished => (status = "returned" /\ CountOf("warning") = 1)

C1_Witness ==
    /\ Finished
    /\ input.rows = << >>
    /\ input.columns = AllColumns
    /\ out = <<"markdown", "warning">>

(* C2: on a non-empty table whose timestamp conversion raises (the column  *)
(* is missing) the call emits exactly one error message and returns        *)
(* normally, with no chart widget and no success acknowledgment.           *)
C2_ConversionRaises ==
    (~ NoData /\ ~ Has("timestamp")) =>
        /\ NoChart
        /\ ~ Emitted("success")
        /\ status # "raised"
        /\ Finished => (status = "returned" /\ CountOf("error") = 1)

C2_Witness ==
    /\ Finished
    /\ Len(input.rows) > 0
    /\ input.columns = {"protocol", "size", "source"}
    /\ out = <<"markdown", "error">>

AllRowsFail == ~ NoData /\ Has("timestamp") /\ RetainedIdx = {}

(* C3 as stated: when every row of a non-empty table fails the conversion  *)
(* the call reports the error message and returns without any chart widget *)
(* or the success acknowledgment.                                          *)
C3_AllRowsFail_AsStated ==
    (AllRowsFail /\ Finished) =>
        /\ Emitted("error")
        /\ status = "returned"
        /\ NoChart
        /\ ~ Emitted("success")

(* C3 amended: when every row of a non-empty table fails the conversion no *)
(* error message and no warning is emitted; every row is dropped and the   *)
(* call goes on over zero rows: with the protocol and size columns it      *)
(* draws every applicable widget with no category, bucket, bar or address  *)
(* and ends with the success acknowledgment, without them it raises.       *)
C3_AllRowsFail ==
    AllRowsFail =>
        /\ ~ Emitted("error")
        /\ ~ Emitted("warning")
        /\ pc \notin {"header", "empty", "timestamp"} => df.rows = << >>
        /\ Finished =>
            IF {"protocol", "size"} \subseteq input.columns
            THEN /\ status = "returned"
                 /\ Emitted("success")
                 /\ Widgets = IF Has("source")
                              THEN <<"pie", "line", "bar", "table">>
                              ELSE <<"pie", "line", "bar">>
                 /\ protocol_counts = << >>
                 /\ df_grouped = << >>
                 /\ avg_size = << >>
                 /\ top_sources = << >>
            ELSE status = "raised" /\ ~ Emitted("success")

C3_Witness ==
    /\ Finished
    /\ AllRowsFail
    /\ Len(input.rows) >= 2
    /\ input.columns = AllColumns
    /\ Emitted("success")
    /\ Emitted("pie")

C5_ProtocolDistribution ==
    Emitted("pie") =>
        /\ Len(protocol_counts) = Cardinality(ValuesOf("protocol"))
        /\ {e.value : e \in Range(protocol_counts)} = ValuesOf("protocol")
        /\ \A e \in Range(protocol_counts) :
              e.count = Cardinality(Having("protocol", e.value))
        /\ Cardinality(ValuesOf("protocol")) = 1 =>
              /\ Len(protocol_counts) = 1
              /\ protocol_counts[1].count = Cardinality(RetainedIdx)

C5_Witness ==
    /\ Emitted("pie")
    /\ Cardinality(RetainedIdx) = 3
    /\ FailingIdx = {}
    /\ protocol_counts = <<[value |-> "UDP", count |-> 3]>>

ZerosAndOne ==
    /\ Has("timestamp")
    /\ Len(input.rows) = 3
    /\ Cardinality({i \in DOMAIN input.rows :
                       input.rows[i]["timestamp"] = Num(0, 1)}) = 2
    /\ Cardinality({i \in DOMAIN input.rows :
                       input.rows[i]["timestamp"] = Num(1, 1)}) = 1

(* C6: packets per second has one bucket for each whole second holding a   *)
(* retained row (its timestamp floored) and no other, each with the number *)
(* of retained rows of that second, in ascending time order; timestamps    *)
(* 0, 0, 1 give second 0 with count 2 and second 1 with count 1.           *)
C6_PacketsPerSecond ==
    Emitted("line") =>
        /\ Len(df_grouped) = Cardinality({WholeSecond(i) : i \in RetainedIdx})
        /\ {e.timestamp : e \in Range(df_grouped)}
             = {Datetime(WholeSecond(i) * NanosPerSecond) : i \in RetainedIdx}
        /\ \A e \in Range(df_grouped) :
              e.count = Cardinality({i \in RetainedIdx :
                            WholeSecond(i) * NanosPerSecond = e.timestamp.ns})
        /\ \A k \in 1..(Len(df_grouped) - 1) :
              df_grouped[k].timestamp.ns < df_grouped[k + 1].timestamp.ns
        /\ ZerosAndOne =>
              df_grouped = <<[timestamp |-> Datetime(0), count |-> 2],
                             [timestamp |-> Datetime(NanosPerSecond),
                              count |-> 1]>>

C6_Witness ==
    /\ Emitted("line")
    /\ ZerosAndOne
    /\ Len(df_grouped) = 2
    /\ df_grouped[1].count = 2
    /\ df_grouped[2].count = 1

(* what C7 says of the content of the top-source table *)
TopSourcesContent ==
    LET listed == {e.value : e \in Range(top_sources)}
    IN  /\ Len(top_sources) = Min(TopN, Cardinality(ValuesOf("source")))
        /\ Cardinality(listed) = Len(top_sources)
        /\ listed \subseteq ValuesOf("source")
        /\ \A e \in Range(top_sources) :
              e.count = Cardinality(Having("source", e.value))
        /\ \A k \in 1..(Len(top_sources) - 1) :
              top_sources[k].count >= top_sources[k + 1].count
        /\ \A a \in ValuesOf("source") \ listed : \A e \in Range(top_sources) :
              Cardinality(Having("source", a)) <= e.count

(* C7 as stated: the top-source table is emitted if and only if the table  *)
(* has a source column; when emitted it has min(10, distinct sources)      *)
(* rows in non-increasing order of count, each count the number of         *)
(* retained rows of the address, and no omitted address has a higher count *)
(* than a listed one.                                                      *)
C7_TopSources_AsStated ==
    /\ Finished => (Emitted("table") <=> Has("source"))
    /\ Emitted("table") => TopSourcesContent

(* C7 amended: the top-source table is emitted if and only if the table    *)
(* has a source column and the call gets to that step, that is the table   *)
(* is not empty and has the timestamp, protocol and size columns; the      *)
(* content is as stated, over the retained rows.                           *)
C7_TopSources ==
    /\ Finished =>
          (Emitted("table") <=>
              (/\ Has("source")
               /\ ~ NoData
               /\ {"timestamp", "protocol", "size"} \subseteq input.columns))
    /\ Emitted("table") => TopSourcesContent

C7_Witness ==
    /\ Emitted("table")
    /\ Cardinality(ValuesOf("source")) > TopN
    /\ Len(top_sources) = TopN
    /\ top_sources[1].count > top_sources[TopN].count
    /\ FailingIdx # {}

TcpAndUdp ==
    /\ {"timestamp", "protocol", "size"} \subseteq input.columns
    /\ Len(input.rows) = 3
    /\ FailingIdx = {}
    /\ \E i, j, k \in DOMAIN input.rows :
          /\ input.rows[i]["protocol"] = "TCP" /\ input.rows[i]["size"] = 10
          /\ input.rows[j]["protocol"] = "TCP" /\ input.rows[j]["size"] = 20
          /\ input.rows[k]["protocol"] = "UDP" /\ input.rows[k]["size"] = 100

(* C8: average size has exactly one bar per distinct protocol among the    *)
(* retained rows, each the sum of the sizes of the retained rows of that   *)
(* protocol divided by their number; TCP with sizes 10, 20 and UDP with    *)
(* size 100 give TCP = 15.0 and UDP = 100.0.                               *)
C8_AverageSize ==
    Emitted("bar") =>
        /\ Len(avg_size) = Cardinality(ValuesOf("protocol"))
        /\ {b.protocol : b \in Range(avg_size)} = ValuesOf("protocol")
        /\ \A b \in Range(avg_size) :
              /\ b.size.den > 0
              /\ b.size.num * Cardinality(Having("protocol", b.protocol))
                   = SizeTotal(Having("protocol", b.protocol)) * b.size.den
        /\ TcpAndUdp =>
              avg_size = <<[protocol |-> "TCP", size |-> [num |-> 15, den |-> 1]],
                           [protocol |-> "UDP", size |-> [num |-> 100, den |-> 1]]>>

C8_Witness ==
    /\ Emitted("bar")
    /\ TcpAndUdp
    /\ Len(avg_size) = 2
    /\ avg_size[1].size = [num |-> 15, den |-> 1]
    /\ avg_size[2].size = [num |-> 100, den |-> 1]

ApplicableWidgets ==
    IF Has("source") THEN <<"pie", "line", "bar", "table">>
    ELSE <<"pie", "line", "bar">>

(* C9: a call emits the success acknowledgment if and only if it emitted   *)
(* widgets 1, 2 and 3 (and 4 when there is a source column) in that order; *)
(* the acknowledgment is the last output of the call, and never comes with *)
(* the "no data" warning or the timestamp error message.                   *)
C9_SuccessAcknowledgment ==
    /\ Finished => (Emitted("success") <=> Widgets = ApplicableWidgets)
    /\ Emitted("success") =>
          /\ Finished
          /\ CountOf("success") = 1
          /\ out[Len(out)] = "success"
          /\ Widgets = ApplicableWidgets
          /\ ~ Emitted("warning")
          /\ ~ Emitted("error")

C9_Witness ==
    /\ Finished
    /\ Len(input.rows) = MaxRows
    /\ out = <<"markdown", "subheader1", "pie", "subheader2", "line",
               "subheader3", "bar", "subheader4", "table", "success">>

(* C10: on a non-empty table whose timestamp column converts and which has *)
(* no protocol or no size column the call raises to its caller: it emits   *)
(* neither the timestamp error message nor the success acknowledgment and  *)
(* does not return normally.                                               *)
C10_MissingColumnRaises ==
    (/\ ~ NoData
     /\ Has("timestamp")
     /\ ~ ({"protocol", "size"} \subseteq input.columns)) =>
        /\ ~ Emitted("error")
        /\ ~ Emitted("success")
        /\ status # "returned"
        /\ Finished => status = "raised"

C10_Witness ==
    /\ Finished
    /\ status = "raised"
    /\ input.columns = {"timestamp", "protocol", "source"}
    /\ RetainedIdx # {}
    /\ out = <<"markdown", "subheader1", "pie", "subheader2", "line",
               "subheader3">>

====
